---- MODULE Spec2Model ----
(***************************************************************************)
(* A model of kegelpy: the routine generator and the progress store of     *)
(* core.py, the curses front-end of kegel.py and the Textual front-end of  *)
(* kegel_tui.py.                                                           *)
(*                                                                         *)
(* Time is counted in units of 50 ms (the shortest sleep of the code,      *)
(* curses.napms(50)); a second is 20 units.  Strings are TLA+ strings, the *)
(* ISO timestamp of datetime.now() is "T" followed by the reading of a     *)
(* wall clock that only moves forward.                                     *)
(***************************************************************************)
EXTENDS Integers, Sequences, FiniteSets, TLC

VARIABLES
    fe,          \* the front-end __main__ started: "curses" or "tui"
    plotext,     \* HAVE_PLOTEXT of kegel.py
    proc,        \* "running", "exited" (menu quit) or "crashed" (uncaught exception)
    screen,      \* the screen function / top of the screen stack that has control
    timeout,     \* the timeout of stdscr.getch in ms, -1 is a blocking read
    user_state,  \* App.user_state / KegelApp.user_state
    file,        \* content of the state file
    wall,        \* the wall clock datetime.now() reads (counts timestamps handed out)
    sess,        \* the running session: locals of exercise_session / run_workout
    snap,        \* user_state, file and request flags when the session began
    last,        \* the StateManager call made last, with its arguments and result
    keys,        \* key presses made so far (bounded by MaxKeys)
    idle,        \* polls spent waiting in the pause state (bounded by MaxIdle)
    started      \* sessions started so far (bounded by MaxSessions)

vars == <<fe, plotext, proc, screen, timeout, user_state, file, wall, sess, snap,
          last, keys, idle, started>>

Max(a, b) == IF a >= b THEN a ELSE b
Min(a, b) == IF a <= b THEN a ELSE b

(***************************************************************************)
(* core.py: LevelGenerator                                                 *)
(***************************************************************************)
get_days_for_level(level) ==
    IF level <= 3 THEN 5
    ELSE IF level <= 6 THEN 6
    ELSE IF level <= 10 THEN 6 + Min(2, (level - 6) \div 2)
    ELSE IF level <= 15 THEN 7 + Min(1, (level - 11) \div 4)
    ELSE Min(12, 8 + (level - 15) \div 3)

\* a hold that grows with the level without a cap
classic_hold_linear(level, day) == 3 + level

classic_hold(level, day) ==
    LET base == IF level <= 10
                THEN (3 + level) + (IF level >= 7 /\ day >= 4 THEN 1 ELSE 0)
                ELSE IF level <= 14
                     THEN (11 + (level - 10)) + (IF level = 12 /\ day >= 4 THEN 2 ELSE 0)
                     ELSE (14 + (level - 14) \div 2)
                          + (IF day >= get_days_for_level(level) \div 2 THEN 1 ELSE 0)
    IN  Min(30, Max(4, base))

classic_rest(level) == IF level < 11 THEN 4 ELSE 5

\* the override of level 11 firing a day late
classic_reps_late(level, day) ==
    IF level <= 10 THEN (10 + level) + ((day - 1) \div 3)
    ELSE IF level = 11 THEN (IF day > 6 THEN 16 ELSE 15)
    ELSE IF level = 12 THEN (IF day <= 3 THEN 16 ELSE 15)
    ELSE IF level = 13 THEN (IF day = 1 THEN 15 ELSE 16)
    ELSE 16

classic_reps(level, day) ==
    IF level <= 10 THEN (10 + level) + ((day - 1) \div 3)
    ELSE IF level = 11 THEN (IF day >= 6 THEN 16 ELSE 15)
    ELSE IF level = 12 THEN (IF day <= 3 THEN 16 ELSE 15)
    ELSE IF level = 13 THEN (IF day = 1 THEN 15 ELSE 16)
    ELSE 16

\* the second and third set lagging two and four steps behind the first
pulse_reps_wide(level, day) ==
    LET base_reps == IF level <= 10 THEN 10 + (level * 2) ELSE 25 + (level - 10) * 2
        day_adjustment == (day - 1) \div 2
        set_adjustment(set_num) ==
            IF set_num = 1 THEN Max(0, day_adjustment - 2)
            ELSE IF set_num = 2 THEN Max(0, day_adjustment - 4)
            ELSE day_adjustment
    IN  [k \in 1..3 |-> Max(5, base_reps + set_adjustment(k - 1))]

\* every set advancing with the day at once, none lagging
pulse_reps_even(level, day) ==
    LET base_reps == IF level <= 10 THEN 10 + (level * 2) ELSE 25 + (level - 10) * 2
        day_adjustment == (day - 1) \div 2
    IN  [k \in 1..3 |-> Max(5, base_reps + day_adjustment)]

pulse_reps(level, day) ==
    LET base_reps == IF level <= 10 THEN 10 + (level * 2) ELSE 25 + (level - 10) * 2
        day_adjustment == (day - 1) \div 2
        set_adjustment(set_num) ==
            IF set_num = 1 THEN Max(0, day_adjustment - 1)
            ELSE IF set_num = 2 THEN Max(0, day_adjustment - 2)
            ELSE day_adjustment
    IN  [k \in 1..3 |-> Max(5, base_reps + set_adjustment(k - 1))]

generate_routine(level, day) ==
    [level |-> level,
     day |-> day,
     classic_hold_sec |-> classic_hold(level, day),
     classic_rest_sec |-> classic_rest(level),
     classic_reps |-> classic_reps(level, day),
     pulse_reps |-> pulse_reps(level, day),
     total_days_in_level |-> get_days_for_level(level)]

(***************************************************************************)
(* core.py: the dataclasses                                                *)
(***************************************************************************)
\* UserState(): the dataclass defaults
DefaultUserState ==
    [current_level |-> 1, current_day |-> 1, last_performed |-> "",
     exercise_history |-> <<>>]

ExerciseRecord(date, level, day, duration_seconds, creps, preps) ==
    [date |-> date, level |-> level, day |-> day,
     duration_seconds |-> duration_seconds, classic_reps |-> creps,
     pulse_reps |-> preps]

\* datetime.now().isoformat() at wall clock reading t
isoformat(t) == "T" \o ToString(t)

(***************************************************************************)
(* The state file.  A file is absent, holds bytes that are not UTF-8       *)
(* ("binary"), holds text that is not JSON ("garbage": empty, truncated)   *)
(* or holds a JSON value.  JSON values, and the Python values json.load    *)
(* makes of them, are tagged records.                                      *)
(***************************************************************************)
JNull == [t |-> "null"]
JNum(n) == [t |-> "num", n |-> n]
JStr(s) == [t |-> "str", s |-> s]
JList(items) == [t |-> "list", items |-> items]
JObj(fields) == [t |-> "obj", fields |-> fields]

Absent == [kind |-> "absent"]
Binary == [kind |-> "binary"]
Garbage == [kind |-> "garbage"]
Text(json) == [kind |-> "text", json |-> json]

StateKeys == {"current_level", "current_day", "last_performed", "exercise_history"}
RecordKeys == {"date", "level", "day", "duration_seconds", "classic_reps", "pulse_reps"}

\* a dump that writes the day under "level" and the level under "day"
RecordToJsonSwapped(r) ==
    JObj([k \in RecordKeys |->
            CASE k = "date" -> JStr(r.date)
              [] k = "level" -> JNum(r.day)
              [] k = "day" -> JNum(r.level)
              [] k = "duration_seconds" -> JNum(r.duration_seconds)
              [] k = "classic_reps" -> JNum(r.classic_reps)
              [] OTHER -> JList([i \in 1..Len(r.pulse_reps) |-> JNum(r.pulse_reps[i])])])

\* dataclasses.asdict(state) as json.dump writes it
RecordToJson(r) ==
    JObj([k \in RecordKeys |->
            CASE k = "date" -> JStr(r.date)
              [] k = "level" -> JNum(r.level)
              [] k = "day" -> JNum(r.day)
              [] k = "duration_seconds" -> JNum(r.duration_seconds)
              [] k = "classic_reps" -> JNum(r.classic_reps)
              [] OTHER -> JList([i \in 1..Len(r.pulse_reps) |-> JNum(r.pulse_reps[i])])])

ToJson(state) ==
    JObj([k \in StateKeys |->
            CASE k = "current_level" -> JNum(state.current_level)
              [] k = "current_day" -> JNum(state.current_day)
              [] k = "last_performed" -> JStr(state.last_performed)
              [] OTHER -> JList([i \in 1..Len(state.exercise_history) |->
                                    RecordToJson(state.exercise_history[i])])])

\* UserState(): the defaults as the Python object load returns
RawDefault == ToJson(DefaultUserState).fields

\* "exercise_history" in data, for the value json.load returned (None and a
\* number raise TypeError; a str is searched for the substring, which the
\* strings drawn here contain only when they are equal to it)
HasHistoryKey(data) ==
    CASE data.t = "obj" -> "exercise_history" \in DOMAIN data.fields
      [] data.t = "list" -> \E i \in 1..Len(data.items) :
                               data.items[i] = JStr("exercise_history")
      [] data.t = "str" -> data.s = "exercise_history"
      [] OTHER -> FALSE

\* a constructor that would take unknown keyword arguments
RecordLoose(record) == RecordKeys \subseteq DOMAIN record.fields

\* ExerciseRecord(**record) raises TypeError unless the keys are the six fields
RecordOk(record) == DOMAIN record.fields = RecordKeys

\* the records load keeps of history_data: the dicts, in order
RECURSIVE KeepDicts(_)
KeepDicts(items) ==
    IF items = <<>> THEN <<>>
    ELSE (IF Head(items).t = "obj" THEN <<Head(items)>> ELSE <<>>)
         \o KeepDicts(Tail(items))

\* history_data as the for loop iterates it: a list's items, a str's
\* characters and a dict's keys (all of them str, none a dict)
HistoryItems(h) == IF h.t = "list" THEN h.items ELSE <<>>

\* StateManager.load: [raised, state], state the fields of the UserState made
load_raw(f) ==
    LET default == [raised |-> "", state |-> RawDefault]
        raise(e) == [raised |-> e, state |-> RawDefault]
    IN
    IF f.kind = "absent" THEN default
    ELSE IF f.kind = "binary" THEN raise("UnicodeDecodeError")
    ELSE IF f.kind = "garbage" THEN default          \* json.JSONDecodeError
    ELSE LET data == f.json IN
         IF data.t \in {"null", "num"} THEN default   \* TypeError: not iterable
         ELSE IF ~HasHistoryKey(data)
         THEN IF data.t # "obj" THEN default          \* TypeError: item assignment
              ELSE IF ~(DOMAIN data.fields \subseteq StateKeys) THEN default
              ELSE [raised |-> "",
                    state |-> [k \in StateKeys |->
                                 IF k = "exercise_history" THEN JList(<<>>)
                                 ELSE IF k \in DOMAIN data.fields THEN data.fields[k]
                                 ELSE RawDefault[k]]]
         ELSE IF data.t # "obj" THEN raise("AttributeError")   \* data.get
         ELSE LET h == data.fields["exercise_history"]
                  kept == KeepDicts(HistoryItems(h))
              IN
              IF h.t \in {"null", "num"} THEN default \* TypeError: not iterable
              ELSE IF \E i \in 1..Len(kept) : ~RecordOk(kept[i]) THEN default
              ELSE IF ~(DOMAIN data.fields \subseteq StateKeys) THEN default
              ELSE [raised |-> "",
                    state |-> [k \in StateKeys |->
                                 IF k = "exercise_history" THEN JList(kept)
                                 ELSE IF k \in DOMAIN data.fields THEN data.fields[k]
                                 ELSE RawDefault[k]]]

\* a UserState whose fields hold values of the declared types
IsInt(v) == v.t = "num"
IsStr(v) == v.t = "str"
RecordTyped(r) ==
    /\ r.t = "obj" /\ DOMAIN r.fields = RecordKeys
    /\ IsStr(r.fields["date"])
    /\ \A k \in {"level", "day", "duration_seconds", "classic_reps"} : IsInt(r.fields[k])
    /\ r.fields["pulse_reps"].t = "list"
    /\ \A i \in 1..Len(r.fields["pulse_reps"].items) : IsInt(r.fields["pulse_reps"].items[i])
WellTyped(raw) ==
    /\ IsInt(raw["current_level"]) /\ IsInt(raw["current_day"])
    /\ IsStr(raw["last_performed"])
    /\ raw["exercise_history"].t = "list"
    /\ \A i \in 1..Len(raw["exercise_history"].items) :
          RecordTyped(raw["exercise_history"].items[i])

\* the UserState object as the front-ends read it (fields of the declared types)
RecordFromRaw(r) ==
    ExerciseRecord(r.fields["date"].s, r.fields["level"].n, r.fields["day"].n,
                   r.fields["duration_seconds"].n, r.fields["classic_reps"].n,
                   [i \in 1..Len(r.fields["pulse_reps"].items) |->
                       r.fields["pulse_reps"].items[i].n])
FromRaw(raw) ==
    [current_level |-> raw["current_level"].n,
     current_day |-> raw["current_day"].n,
     last_performed |-> raw["last_performed"].s,
     exercise_history |-> [i \in 1..Len(raw["exercise_history"].items) |->
                              RecordFromRaw(raw["exercise_history"].items[i])]]

load(f) == FromRaw(load_raw(f).state)

\* a save that is left out
save_skipped(f, state, io) == f

\* StateManager.save: open(filepath, "w") truncates, json.dump writes.
\* io = "ok": written; "open": open raises OSError (permission denied), the
\* file is as it was; "write": the write raises OSError (disk full) after the
\* truncation, the file holds a prefix of the text.
save(f, state, io) ==
    CASE io = "ok" -> Text(ToJson(state))
      [] io = "open" -> f
      [] OTHER -> Garbage

\* a record that carries the day after the routine's
add_record_next_day(state, routine, duration_seconds, now) ==
    LET record == ExerciseRecord(isoformat(now), routine.level, routine.day + 1,
                                 duration_seconds, routine.classic_reps,
                                 routine.pulse_reps)
    IN  [state EXCEPT !.exercise_history = Append(@, record),
                      !.last_performed = record.date]

\* a record put at the head of the history
add_record_first(state, routine, duration_seconds, now) ==
    LET record == ExerciseRecord(isoformat(now), routine.level, routine.day,
                                 duration_seconds, routine.classic_reps,
                                 routine.pulse_reps)
    IN  [state EXCEPT !.exercise_history = <<record>> \o @,
                      !.last_performed = record.date]

\* a record appended without last_performed being set
add_record_undated(state, routine, duration_seconds, now) ==
    LET record == ExerciseRecord(isoformat(now), routine.level, routine.day,
                                 duration_seconds, routine.classic_reps,
                                 routine.pulse_reps)
    IN  [state EXCEPT !.exercise_history = Append(@, record)]

\* StateManager.add_exercise_record up to its save
add_exercise_record(state, routine, duration_seconds, now) ==
    LET record == ExerciseRecord(isoformat(now), routine.level, routine.day,
                                 duration_seconds, routine.classic_reps,
                                 routine.pulse_reps)
    IN  [state EXCEPT !.exercise_history = Append(@, record),
                      !.last_performed = record.date]

\* an advancement applied twice over
advance_twice(state, days_in_current_level) ==
    IF state.current_day >= days_in_current_level
    THEN [state EXCEPT !.current_level = @ + 1, !.current_day = 2]
    ELSE [state EXCEPT !.current_day = @ + 2]

\* an advancement that takes one day more to leave the level
advance_late(state, days_in_current_level) ==
    IF state.current_day > days_in_current_level
    THEN [state EXCEPT !.current_level = @ + 1, !.current_day = 1]
    ELSE [state EXCEPT !.current_day = @ + 1]

\* an advancement that enters the next level without going back to day 1
advance_keep_day(state, days_in_current_level) ==
    IF state.current_day >= days_in_current_level
    THEN [state EXCEPT !.current_level = @ + 1, !.current_day = @ + 1]
    ELSE [state EXCEPT !.current_day = @ + 1]

\* an advancement that enters the next level at its second day
advance_skip_day(state, days_in_current_level) ==
    IF state.current_day >= days_in_current_level
    THEN [state EXCEPT !.current_level = @ + 1, !.current_day = 2]
    ELSE [state EXCEPT !.current_day = @ + 1]

\* StateManager.advance_progress up to its save
advance_progress(state, days_in_current_level) ==
    IF state.current_day >= days_in_current_level
    THEN [state EXCEPT !.current_level = @ + 1, !.current_day = 1]
    ELSE [state EXCEPT !.current_day = @ + 1]

\* a save_workout that leaves last_performed as it was
save_workout_undated(state, routine, duration, now) ==
    LET record == ExerciseRecord(isoformat(now), routine.level, routine.day,
                                 duration, routine.classic_reps, routine.pulse_reps)
        s1 == [state EXCEPT !.exercise_history = Append(@, record)]
    IN  IF s1.current_day >= routine.total_days_in_level
        THEN [s1 EXCEPT !.current_level = @ + 1, !.current_day = 1]
        ELSE [s1 EXCEPT !.current_day = @ + 1]

\* KegelApp.save_workout up to its save
save_workout(state, routine, duration, now) ==
    LET record == ExerciseRecord(isoformat(now), routine.level, routine.day,
                                 duration, routine.classic_reps, routine.pulse_reps)
        s1 == [state EXCEPT !.exercise_history = Append(@, record),
                            !.last_performed = record.date]
    IN  IF s1.current_day >= routine.total_days_in_level
        THEN [s1 EXCEPT !.current_level = @ + 1, !.current_day = 1]
        ELSE [s1 EXCEPT !.current_day = @ + 1]

RECURSIVE Sum(_)
Sum(q) == IF q = <<>> THEN 0 ELSE Head(q) + Sum(Tail(q))

\* StatisticsCalculator.calculate_stats on an empty history
EmptyStats ==
    [total_duration_minutes |-> 0, workout_days |-> 0, last_14_days |-> <<>>,
     level_stats |-> <<>>, total_workouts |-> 0, avg_duration_minutes |-> 0]

\* a date: date.today().isoformat() is the number of the day, a timestamp is
\* the day, "T" and the time of day
DayString(day) == ToString(day)
Timestamp(day, time) == DayString(day) \o "T" \o ToString(time)

\* record.date.split("T")[0], for the timestamps of days 0..31 and of the
\* wall clock ("T" \o reading: nothing stands before the "T")
DatePart(date) ==
    CHOOSE d \in {""} \cup {DayString(n) : n \in 0..31} :
        \E t \in 0..99 : date = d \o "T" \o ToString(t)

\* a / b as a fraction
Frac(a, b) == [num |-> a, den |-> b]

\* the seconds of the records of `history` at the indices `keep`, added up
Seconds(history, keep) ==
    Sum([i \in 1..Len(history) |->
            IF i \in keep THEN history[i].duration_seconds ELSE 0])

\* StatisticsCalculator.calculate_stats(exercise_history), datetime.now()
\* falling on day `today`
calculate_stats(exercise_history, today) ==
    IF exercise_history = <<>> THEN EmptyStats
    ELSE
    LET all == 1..Len(exercise_history)
        total_duration_seconds == Seconds(exercise_history, all)
        workout_dates == {DatePart(exercise_history[i].date) :
                             i \in 1..Len(exercise_history)}
        date_str(i) == DayString(today - (13 - i))
        last_14_days ==
            [k \in 1..14 |->
                LET on_day == {i \in all :
                                  DatePart(exercise_history[i].date) = date_str(k - 1)}
                IN  [date |-> date_str(k - 1),
                     duration_minutes |-> Frac(Seconds(exercise_history, on_day), 60)]]
        levels == {exercise_history[i].level : i \in all}
        of_level(level) == {i \in all : exercise_history[i].level = level}
        level_counts(level) == Cardinality(of_level(level))
        avg_level_stats ==
            [level \in levels |->
                Frac(Seconds(exercise_history, of_level(level)),
                     60 * level_counts(level))]
    IN  [total_duration_minutes |-> Frac(total_duration_seconds, 60),
         workout_days |-> Cardinality(workout_dates),
         total_workouts |-> Len(exercise_history),
         avg_duration_minutes |->
             Frac(total_duration_seconds, 60 * Len(exercise_history)),
         last_14_days |-> last_14_days,
         level_stats |-> avg_level_stats]

(***************************************************************************)
(* Bounds of the model                                                     *)
(***************************************************************************)
MaxKeys == 2        \* key presses (p, s/q) made during sessions
MaxIdle == 1        \* polls that find the session still paused
MaxSessions == 1    \* sessions started from the main menu
MaxAgain == 2       \* sessions started one after the other from the main menu
MaxCalls == 2       \* StateManager calls made by the store's caller
MaxDays == 6        \* days_in_current_level handed to advance_progress
MaxRuns == 48       \* sessions run one after the other from the defaults
MaxLevel == 30      \* levels a routine is generated for
MaxDay == 14        \* days the generator's functions are called with directly
MaxHistory == 2     \* records of the histories the statistics are drawn from

(***************************************************************************)
(* Time: sleeps and durations of the front-ends, in ms                     *)
(***************************************************************************)
UNIT_MS == 50
Units(ms) == ms \div UNIT_MS
SEC == Units(1000)
CeilDiv(a, b) == (a + b - 1) \div b       \* math.ceil(a / b), a >= 0

GETCH_TIMEOUT_MS == 100      \* kegel.py: self.stdscr.timeout(100)
BLOCKING == -1               \* kegel.py: self.stdscr.timeout(-1)
TIMER_NAP_MS == 100          \* run_timer: curses.napms(100)
PULSE_NAP_MS == 50           \* run_pulse: curses.napms(50)
PULSE_PHASE_MS == 600        \* run_pulse: 0.6 s of squeeze, 0.6 s of release
SET_INTRO_NAP_MS == 1000     \* run_pulse: curses.napms(1000)
SET_REST_MS == 10000         \* run_pulse: rest_duration = 10.0
SET_REST_NAP_MS == 100       \* run_pulse: curses.napms(100)
GET_READY_NAP_MS == 2000     \* exercise_session: curses.napms(2000)
TUI_TICK_MS == 100           \* countdown: asyncio.sleep(0.1), remaining -= 0.1
TUI_READY_MS == 1500         \* run_workout: asyncio.sleep(1.5)
TUI_INTRO_MS == 1000         \* run_workout: asyncio.sleep(1.0)
TUI_PULSE_MS == 600          \* run_workout: countdown(0.6, ...)
TUI_SET_REST_MS == 10000     \* run_workout: countdown(10, ...)

(***************************************************************************)
(* The session record: the locals of exercise_session / run_workout, the   *)
(* request flags (App.paused and App.stop_signal, WorkoutScreen.is_paused) *)
(* and what an observer of the screen has counted.                         *)
(***************************************************************************)
Phases == {"hold", "rest", "intro", "squeeze", "release", "setrest"}

NoSession ==
    [routine |-> generate_routine(1, 1),
     pc |-> "idle",          \* the loop that polls next; "pause"; "complete"; "done"
     ret |-> "idle",         \* the loop pause_screen returns to
     i |-> 0, set_idx |-> 0, rep |-> 0,
     start |-> 0,            \* start_time / start_sq / start_rel / rest_start
     time_elapsed |-> 0,     \* run_timer's time_elapsed
     rem |-> 0,              \* countdown's remaining, in ticks of 0.1 s
     ran |-> FALSE,          \* countdown sleeps in its not-paused branch
     dur |-> 0,              \* duration of the phase, in units
     clock |-> 0,            \* time since the session began, in units
     paused |-> FALSE, stop_signal |-> FALSE,
     outcome |-> "none",     \* "Completed" or "Stopped"
     n |-> [ph \in Phases |-> 0],        \* phases begun
     squeezes |-> <<0, 0, 0>>,           \* squeezes begun in each set
     display |-> -1,         \* the countdown value drawn last, -1 before any
     shown |-> 0,            \* the remaining time that value was drawn for, in
                             \*   units (a float's fraction of a unit counts as one)
     stopKey |-> FALSE,      \* s/q was pressed in this session
     late |-> FALSE,         \* a phase began after s/q was pressed
     pausedIn |-> 0,         \* time of the current phase spent paused
     pausedSum |-> 0,        \* time of the session spent paused
     lastRun |-> 0,          \* un-paused time of the phase that ended last,
     lastDur |-> 0,          \*   and that phase's duration
     before |-> [outcome |-> "none", paused |-> FALSE]]
                             \* how the session before this one ended, and
                             \*   whether it spent time paused

\* the phase `ph` of `dur` units begins
Begin(s, ph, dur) ==
    [s EXCEPT !.pc = ph, !.start = s.clock, !.time_elapsed = 0, !.dur = dur,
              !.pausedIn = 0, !.n[ph] = @ + 1,
              !.squeezes = IF ph = "squeeze"
                           THEN [@ EXCEPT ![s.set_idx + 1] = @ + 1] ELSE @,
              !.late = @ \/ s.stopKey]

\* the phase in progress ran out
End(s) ==
    [s EXCEPT !.lastRun = (s.clock - s.start) - s.pausedIn, !.lastDur = s.dur]

\* a duration that leaves out the time spent paused
session_duration_unpaused(s) == s.clock - s.pausedSum

\* time.time() - session_start_time, (datetime.now() - start_time).total_seconds()
session_duration(s) == s.clock

\* exercise_session's `completed` once the loops are left
Done(s, completed) ==
    [s EXCEPT !.pc = "done",
              !.outcome = IF completed THEN "Completed" ELSE "Stopped"]

(***************************************************************************)
(* kegel.py: App.run_pulse, App.run_timer, App.exercise_session            *)
(***************************************************************************)
\* run_pulse after the reps of a set: the rest between sets, or return True
AfterReps(s) ==
    IF s.set_idx < Len(s.routine.pulse_reps) - 1
    THEN IF s.stop_signal THEN Done(s, FALSE)
         ELSE Begin(s, "setrest", Units(SET_REST_MS))
    ELSE Done(s, TRUE)

\* a loop over the reps of a set that takes one rep more
EnterRepOver(s) ==
    IF s.rep <= s.routine.pulse_reps[s.set_idx + 1]
    THEN IF s.stop_signal THEN Done(s, FALSE)
         ELSE Begin(s, "squeeze", Units(PULSE_PHASE_MS))
    ELSE AfterReps(s)

\* run_pulse at the head of its loop over the reps of a set
EnterRep(s) ==
    IF s.rep < s.routine.pulse_reps[s.set_idx + 1]
    THEN IF s.stop_signal THEN Done(s, FALSE)
         ELSE Begin(s, "squeeze", Units(PULSE_PHASE_MS))
    ELSE AfterReps(s)

\* run_pulse at the head of its loop over the sets
EnterSet(s) ==
    IF s.set_idx >= Len(s.routine.pulse_reps) THEN Done(s, TRUE)
    ELSE IF s.stop_signal THEN Done(s, FALSE)
    ELSE EnterRep([s EXCEPT !.n["intro"] = @ + 1, !.late = @ \/ s.stopKey,
                            !.clock = @ + Units(SET_INTRO_NAP_MS), !.rep = 0])

\* exercise_session after the classic loop: GET READY FOR PULSES, run_pulse
EnterPulse(s) ==
    EnterSet([s EXCEPT !.clock = @ + Units(GET_READY_NAP_MS), !.set_idx = 0])

\* a classic loop that runs the holds back to back
TimerSkipRest(s) ==
    IF s.i + 1 < s.routine.classic_reps
    THEN IF s.stop_signal THEN Done(End(s), FALSE)
         ELSE Begin([End(s) EXCEPT !.i = @ + 1], "hold",
                    s.routine.classic_hold_sec * SEC)
    ELSE EnterPulse([End(s) EXCEPT !.i = @ + 1])

\* run_timer returned True to the classic loop
TimerTrue(s) ==
    IF s.pc = "hold"
    THEN Begin(End(s), "rest", s.routine.classic_rest_sec * SEC)
    ELSE IF s.i + 1 < s.routine.classic_reps
         THEN IF s.stop_signal THEN Done(End(s), FALSE)
              ELSE Begin([End(s) EXCEPT !.i = @ + 1], "hold",
                         s.routine.classic_hold_sec * SEC)
         ELSE EnterPulse([End(s) EXCEPT !.i = @ + 1])

\* run_timer's loop body once handle_input has returned `ret`
TimerAfterInput(s, ret) ==
    IF ret \/ s.stop_signal THEN Done(s, FALSE)
    ELSE LET time_elapsed == s.clock - s.start
             remaining == Max(0, s.dur - time_elapsed)
             display_seconds == CeilDiv(remaining, SEC)
             t == [s EXCEPT !.time_elapsed = time_elapsed]
             r == [t EXCEPT !.display = display_seconds, !.shown = remaining,
                            !.clock = @ + Units(TIMER_NAP_MS)]
         IN  IF display_seconds <= 0 THEN TimerTrue(t)
             ELSE IF r.time_elapsed < r.dur THEN r ELSE TimerTrue(r)

\* run_pulse's squeeze and release loops once handle_input has returned `ret`
PulseAfterInput(s, ret) ==
    IF ret THEN Done(s, FALSE)
    ELSE LET r == [s EXCEPT !.clock = @ + Units(PULSE_NAP_MS)]
         IN  IF r.clock - r.start < Units(PULSE_PHASE_MS) THEN r
             ELSE IF s.pc = "squeeze"
                  THEN Begin(End(r), "release", Units(PULSE_PHASE_MS))
                  ELSE EnterRep([End(r) EXCEPT !.rep = @ + 1])

\* run_pulse's rest loop once handle_input has returned (self.paused is False
\* whenever it returns, so the nested pause_screen call never runs)
SetRestAfterInput(s, ret) ==
    LET remaining_rest == Max(0, s.dur - (s.clock - s.start))
        r == [s EXCEPT !.display = CeilDiv(remaining_rest, SEC),
                       !.shown = remaining_rest,
                       !.clock = @ + Units(SET_REST_NAP_MS)]
    IN  IF r.clock - r.start < r.dur
        THEN IF r.stop_signal THEN Done(r, FALSE) ELSE r
        ELSE EnterSet([End(r) EXCEPT !.set_idx = @ + 1])

AfterInput(s, ret) ==
    IF s.pc \in {"hold", "rest"} THEN TimerAfterInput(s, ret)
    ELSE IF s.pc \in {"squeeze", "release"} THEN PulseAfterInput(s, ret)
    ELSE SetRestAfterInput(s, ret)

\* handle_input in one of the session's loops, getch returning `key`
\* ("none": the timeout ran out), and the rest of that loop's iteration
handle_input(s, key) ==
    IF key = "none"
    THEN AfterInput([s EXCEPT !.clock = @ + Units(GETCH_TIMEOUT_MS)], FALSE)
    ELSE IF key = "p"
    THEN IF ~s.paused
         THEN [s EXCEPT !.paused = TRUE, !.ret = s.pc, !.pc = "pause"]
         ELSE AfterInput([s EXCEPT !.paused = FALSE], FALSE)
    ELSE AfterInput([s EXCEPT !.stop_signal = TRUE, !.stopKey = TRUE], TRUE)

\* one turn of pause_screen's loop; leaving it, handle_input returns False
pause_screen(s, key) ==
    IF key = "none"
    THEN [s EXCEPT !.clock = @ + Units(GETCH_TIMEOUT_MS),
                   !.pausedIn = @ + Units(GETCH_TIMEOUT_MS),
                   !.pausedSum = @ + Units(GETCH_TIMEOUT_MS)]
    ELSE IF key = "p"
    THEN AfterInput([s EXCEPT !.paused = FALSE, !.pc = s.ret], FALSE)
    ELSE AfterInput([s EXCEPT !.stop_signal = TRUE, !.stopKey = TRUE,
                              !.paused = FALSE, !.pc = s.ret], FALSE)

\* an exercise_session that leaves stop_signal as the session before left it
exercise_session_keeps_stop(s, state) ==
    LET routine == generate_routine(state.current_level, state.current_day)
        fresh == [NoSession EXCEPT !.routine = routine, !.paused = s.paused,
                                   !.stop_signal = s.stop_signal]
    IN  IF routine.classic_reps > 0
        THEN Begin(fresh, "hold", routine.classic_hold_sec * SEC)
        ELSE EnterPulse(fresh)

\* exercise_session up to its first poll
exercise_session(s, state) ==
    LET routine == generate_routine(state.current_level, state.current_day)
        fresh == [NoSession EXCEPT !.routine = routine, !.paused = s.paused,
                                   !.stop_signal = FALSE]
    IN  IF routine.classic_reps > 0
        THEN Begin(fresh, "hold", routine.classic_hold_sec * SEC)
        ELSE EnterPulse(fresh)

(***************************************************************************)
(* kegel_tui.py: WorkoutScreen.countdown and WorkoutScreen.run_workout.    *)
(* The worker is a coroutine: it runs from one await to the next, and the  *)
(* key handlers run in between.                                            *)
(***************************************************************************)
\* countdown subtracts 0.1 from a binary float: after seconds/0.1 turns the
\* float is still above 0 for these durations, and the loop takes one more
\* turn (0.6 s takes 7 turns, 10 s takes 101; 2-4 s and 19-30 s come out even)
TuiExtraTurn(ms) ==
    ~(ms \in {2000, 3000, 4000} \/ (ms >= 19000 /\ ms <= 30000 /\ ms % 1000 = 0))

\* countdown's float `remaining` is above rem * 0.1 at a whole number of
\* seconds: the subtractions of 0.1 from 0.6, 1 and 5-16 s leave it above at
\* every whole second below the start, those from 17, 18 and 19 s at some
TuiAbove(ms, rem) ==
    /\ rem % 10 = 0
    /\ rem * TUI_TICK_MS < ms
    /\ \/ ms <= 1000
       \/ ms >= 5000 /\ ms <= 16000
       \/ ms = 17000 /\ rem <= 120
       \/ ms = 18000 /\ rem <= 80
       \/ ms = 19000 /\ rem \in {30, 40}

\* the float `remaining` after the subtractions that leave `rem` ticks of
\* 0.1 s, in units, a fraction of a unit counted as one
TuiRemaining(ms, rem) ==
    Units(rem * TUI_TICK_MS) + (IF TuiAbove(ms, rem) THEN 1 ELSE 0)

\* math.ceil(remaining)
TuiDisplay(ms, rem) ==
    CeilDiv(rem * TUI_TICK_MS, 1000) + (IF TuiAbove(ms, rem) THEN 1 ELSE 0)

\* countdown's not-paused branch draws display_seconds when it is positive
TuiDraw(s, ms, rem) ==
    IF ~s.paused /\ TuiDisplay(ms, rem) > 0
    THEN [s EXCEPT !.display = TuiDisplay(ms, rem), !.shown = TuiRemaining(ms, rem)]
    ELSE s

\* countdown(seconds, ...) up to its first await
TuiBegin(s, ph, ms) ==
    TuiDraw([Begin(s, ph, Units(ms)) EXCEPT !.rem = ms \div TUI_TICK_MS,
                                            !.ran = ~s.paused],
            ms, ms \div TUI_TICK_MS)

\* run_workout arriving at a pulse set: the set's title, asyncio.sleep(1.0)
TuiIntro(s) ==
    [s EXCEPT !.pc = "intro", !.n["intro"] = @ + 1, !.late = @ \/ s.stopKey]

\* run_workout after the last set: save_workout is called, asyncio.sleep(2)
TuiComplete(s) == [s EXCEPT !.pc = "complete", !.outcome = "Completed"]

\* run_workout once the reps of a set are done
TuiAfterReps(s) ==
    IF s.set_idx < Len(s.routine.pulse_reps) - 1
    THEN TuiBegin(s, "setrest", TUI_SET_REST_MS)
    ELSE TuiComplete(s)

\* run_workout once a countdown has returned
TuiNext(s) ==
    CASE s.pc = "hold" -> TuiBegin(s, "rest", s.routine.classic_rest_sec * 1000)
      [] s.pc = "rest" ->
            IF s.i + 1 < s.routine.classic_reps
            THEN TuiBegin([s EXCEPT !.i = @ + 1], "hold",
                          s.routine.classic_hold_sec * 1000)
            ELSE [s EXCEPT !.i = @ + 1, !.pc = "ready"]
      [] s.pc = "squeeze" -> TuiBegin(s, "release", TUI_PULSE_MS)
      [] s.pc = "release" ->
            IF s.rep + 1 < s.routine.pulse_reps[s.set_idx + 1]
            THEN TuiBegin([s EXCEPT !.rep = @ + 1], "squeeze", TUI_PULSE_MS)
            ELSE TuiAfterReps([s EXCEPT !.rep = @ + 1])
      [] OTHER ->       \* the rest between sets
            IF s.set_idx + 1 < Len(s.routine.pulse_reps)
            THEN TuiIntro([s EXCEPT !.set_idx = @ + 1])
            ELSE TuiComplete(s)

\* countdown: the sleep of 0.1 s is over; on to the next await
countdown(s) ==
    LET rem == IF s.ran THEN s.rem - 1 ELSE s.rem
        t == [s EXCEPT !.rem = rem,
                       !.clock = @ + Units(TUI_TICK_MS),
                       !.pausedIn = IF s.ran THEN @ ELSE @ + Units(TUI_TICK_MS),
                       !.pausedSum = IF s.ran THEN @ ELSE @ + Units(TUI_TICK_MS)]
    IN  IF rem > 0 \/ (rem = 0 /\ TuiExtraTurn(s.dur * UNIT_MS))
        THEN TuiDraw([t EXCEPT !.ran = ~t.paused], s.dur * UNIT_MS, rem)
        ELSE TuiNext(End(t))

\* the worker from the await it sleeps in to its next await
run_workout_step(s) ==
    CASE s.pc = "ready" ->
            TuiIntro([s EXCEPT !.clock = @ + Units(TUI_READY_MS), !.set_idx = 0])
      [] s.pc = "intro" ->
            LET t == [s EXCEPT !.clock = @ + Units(TUI_INTRO_MS), !.rep = 0]
            IN  IF 0 < t.routine.pulse_reps[t.set_idx + 1]
                THEN TuiBegin(t, "squeeze", TUI_PULSE_MS)
                ELSE TuiAfterReps(t)
      [] s.pc = "complete" -> [s EXCEPT !.pc = "done"]      \* self.app.pop_screen()
      [] OTHER -> countdown(s)

\* run_workout up to its first await (a new WorkoutScreen: is_paused is False)
run_workout(state) ==
    LET routine == generate_routine(state.current_level, state.current_day)
        fresh == [NoSession EXCEPT !.routine = routine]
    IN  IF routine.classic_reps > 0
        THEN TuiBegin(fresh, "hold", routine.classic_hold_sec * 1000)
        ELSE [fresh EXCEPT !.pc = "ready"]

\* WorkoutScreen.action_pause_resume
action_pause_resume(s) == [s EXCEPT !.paused = ~@]

\* WorkoutScreen.action_stop: the worker is cancelled at its await
\* (during the closing sleep the workout is saved already)
action_stop(s) ==
    [s EXCEPT !.pc = "done",
              !.stopKey = @ \/ s.pc # "complete",
              !.outcome = IF s.pc = "complete" THEN @ ELSE "Stopped"]

(***************************************************************************)
(* The programs: kegel.py's App and kegel_tui.py's KegelApp                *)
(***************************************************************************)
IoOutcomes == {"ok", "open", "write"}

\* the state after n completed sessions of `d` units each, from the defaults
RECURSIVE Progress(_, _)
Progress(n, d) ==
    IF n = 0 THEN DefaultUserState
    ELSE LET st == Progress(n - 1, d)
             routine == generate_routine(st.current_level, st.current_day)
         IN  advance_progress(add_exercise_record(st, routine, d, n),
                              routine.total_days_in_level)

\* the state files the programs are started on: none, and the file left on
\* the last day of level 1
InitFiles == {Absent, Text(ToJson(Progress(4, 3000)))}

NoCall == [op |-> "none"]

Init ==
    /\ fe \in {"curses", "tui"}
    /\ plotext \in BOOLEAN
    /\ (fe = "tui" => plotext)
    /\ proc = "running"
    /\ screen = "menu"
    /\ timeout = GETCH_TIMEOUT_MS
    /\ file \in InitFiles
    /\ user_state = load(file)
    /\ wall = Len(user_state.exercise_history) + 1
    /\ sess = NoSession
    /\ snap = [user_state |-> user_state, file |-> file]
    /\ last = NoCall
    /\ keys = 0
    /\ idle = 0
    /\ started = 0

Loops == {"hold", "rest", "squeeze", "release", "setrest"}

\* exercise_session once the loops are left: the record, the advancement
\* and the closing screen (SESSION COMPLETE / SESSION STOPPED)
SessionEnd(s, io1, io2) ==
    LET st1 == add_exercise_record(user_state, s.routine, session_duration(s), wall)
        f1 == save(file, st1, io1)
        st2 == advance_progress(st1, s.routine.total_days_in_level)
        f2 == save(f1, st2, io2)
    IN  /\ sess' = s
        /\ IF s.outcome # "Completed"
           THEN /\ screen' = "closing"
                /\ UNCHANGED <<user_state, file, wall, proc>>
           ELSE /\ wall' = wall + 1
                /\ IF io1 # "ok"
                   THEN user_state' = st1 /\ file' = f1 /\ proc' = "crashed"
                        /\ UNCHANGED screen
                   ELSE IF io2 # "ok"
                   THEN user_state' = st2 /\ file' = f2 /\ proc' = "crashed"
                        /\ UNCHANGED screen
                   ELSE user_state' = st2 /\ file' = f2 /\ screen' = "closing"
                        /\ UNCHANGED proc

\* a poll of the session (getch in handle_input or pause_screen) that
\* returns `key`, and everything up to the next poll
CursesPoll(key, io1, io2) ==
    /\ fe = "curses" /\ proc = "running" /\ screen = "workout"
    /\ sess.pc \in Loops \cup {"pause"}
    /\ LET s == IF sess.pc = "pause" THEN pause_screen(sess, key)
                ELSE handle_input(sess, key)
       IN  \* only a session that ends Completed writes: io1, io2 matter there
           /\ (s.pc = "done" /\ s.outcome = "Completed") \/ (io1 = "ok" /\ io2 = "ok")
           /\ IF s.pc = "done" THEN SessionEnd(s, io1, io2)
              ELSE sess' = s /\ UNCHANGED <<user_state, file, wall, proc, screen>>
    /\ UNCHANGED <<fe, plotext, timeout, snap, last, started>>

\* no key arrives within the timeout of getch
CursesTimeout(IO) ==
    /\ timeout # BLOCKING
    /\ sess.pc = "pause" => idle < MaxIdle
    /\ idle' = IF sess.pc = "pause" THEN idle + 1 ELSE idle
    /\ \E io1, io2 \in IO : CursesPoll("none", io1, io2)
    /\ UNCHANGED keys

\* p is pressed
CursesPauseKey(IO) ==
    /\ keys < MaxKeys
    /\ keys' = keys + 1
    /\ \E io1, io2 \in IO : CursesPoll("p", io1, io2)
    /\ UNCHANGED idle

\* s or q is pressed
CursesStopKey(IO) ==
    /\ keys < MaxKeys
    /\ keys' = keys + 1
    /\ \E io1, io2 \in IO : CursesPoll("s", io1, io2)
    /\ UNCHANGED idle

\* the worker of WorkoutScreen runs from its await to the next one
TuiStep(IO) ==
    /\ fe = "tui" /\ proc = "running" /\ screen = "workout"
    /\ sess.pc # "done"
    /\ LET waiting == sess.pc \in Loops /\ ~sess.ran
           s == run_workout_step(sess)
           saves == s.pc = "complete" /\ sess.pc # "complete"
           st == save_workout(user_state, s.routine, session_duration(s), wall)
       IN  /\ waiting => idle < MaxIdle
           /\ idle' = IF waiting THEN idle + 1 ELSE idle
           /\ sess' = s
           /\ screen' = IF s.pc = "done" THEN "closing" ELSE screen
           /\ IF saves
              THEN \E io \in IO :
                      /\ user_state' = st
                      /\ file' = save(file, st, io)
                      /\ wall' = wall + 1
                      /\ proc' = IF io = "ok" THEN proc ELSE "crashed"
              ELSE UNCHANGED <<user_state, file, wall, proc>>
    /\ UNCHANGED <<fe, plotext, timeout, snap, last, keys, started>>

\* p on the WorkoutScreen
TuiPauseKey ==
    /\ fe = "tui" /\ proc = "running" /\ screen = "workout"
    /\ keys < MaxKeys
    /\ keys' = keys + 1
    /\ sess' = action_pause_resume(sess)
    /\ UNCHANGED <<fe, plotext, proc, screen, timeout, user_state, file, wall,
                   snap, last, idle, started>>

\* s or q on the WorkoutScreen
TuiStopKey ==
    /\ fe = "tui" /\ proc = "running" /\ screen = "workout"
    /\ keys < MaxKeys
    /\ keys' = keys + 1
    /\ sess' = action_stop(sess)
    /\ screen' = "closing"
    /\ UNCHANGED <<fe, plotext, proc, timeout, user_state, file, wall,
                   snap, last, idle, started>>

\* what is left of a session once exercise_session has returned (its locals
\* are gone, App.paused and App.stop_signal stay) or the WorkoutScreen has
\* been popped (the screen object is gone)
Forget(s) ==
    LET before == [outcome |-> s.outcome, paused |-> s.pausedSum > 0]
    IN  IF fe = "curses"
        THEN [NoSession EXCEPT !.paused = s.paused,
                               !.stop_signal = s.stop_signal,
                               !.before = before]
        ELSE [NoSession EXCEPT !.before = before]

\* the closing screen's curses.napms(2000) is over and exercise_session
\* returns to main_menu; the popped WorkoutScreen uncovers the MainMenu
SessionReturn ==
    /\ proc = "running" /\ screen = "closing"
    /\ screen' = "menu"
    /\ sess' = Forget(sess)
    /\ UNCHANGED <<fe, plotext, proc, timeout, user_state, file, wall, snap,
                   last, keys, idle, started>>

\* s on the main menu: exercise_session / push_screen(WorkoutScreen())
StartSession(n) ==
    /\ proc = "running" /\ screen = "menu"
    /\ started < n
    /\ started' = started + 1
    /\ screen' = "workout"
    /\ sess' = [(IF fe = "curses" THEN exercise_session(sess, user_state)
                 ELSE run_workout(user_state)) EXCEPT !.before = sess.before]
    /\ snap' = [user_state |-> user_state, file |-> file]
    /\ UNCHANGED <<fe, plotext, proc, timeout, user_state, file, wall, last,
                   keys, idle>>

MenuStart == StartSession(MaxSessions)

\* i, p, t on the main menu, and q on the screen reached
MenuOpen ==
    /\ proc = "running" /\ screen = "menu"
    /\ screen' \in {"info", "progress", "stats"}
    /\ UNCHANGED <<fe, plotext, proc, timeout, user_state, file, wall, sess,
                   snap, last, keys, idle, started>>

ScreenBack ==
    /\ proc = "running" /\ screen \in {"info", "progress", "stats"}
    /\ screen' = "menu"
    /\ UNCHANGED <<fe, plotext, proc, timeout, user_state, file, wall, sess,
                   snap, last, keys, idle, started>>

\* q on the main menu
MenuQuit ==
    /\ proc = "running" /\ screen = "menu"
    /\ proc' = "exited"
    /\ UNCHANGED <<fe, plotext, screen, timeout, user_state, file, wall, sess,
                   snap, last, keys, idle, started>>

\* statistics_screen: v opens the visualisation menu, whose getch is made
\* blocking by stdscr.timeout(-1); without plotext a notice waits for a key
StatsVisualize ==
    /\ fe = "curses" /\ proc = "running" /\ screen = "stats"
    /\ IF plotext THEN screen' = "viz" /\ timeout' = BLOCKING
       ELSE screen' = "notice" /\ UNCHANGED timeout
    /\ UNCHANGED <<fe, plotext, proc, user_state, file, wall, sess, snap, last,
                   keys, idle, started>>

\* a key on the visualisation menu (s, c: the graphs, then Enter) or on the
\* notice: back to the statistics
VisualizeKey ==
    /\ fe = "curses" /\ proc = "running" /\ screen \in {"viz", "notice"}
    /\ screen' = "stats"
    /\ UNCHANGED <<fe, plotext, proc, timeout, user_state, file, wall, sess,
                   snap, last, keys, idle, started>>

\* progress_screen: r opens reset_progress
ProgressReset ==
    /\ fe = "curses" /\ proc = "running" /\ screen = "progress"
    /\ screen' = "reset"
    /\ UNCHANGED <<fe, plotext, proc, timeout, user_state, file, wall, sess,
                   snap, last, keys, idle, started>>

\* a reset that leaves the file where it is
reset_kept(f) == [file |-> f, user_state |-> load(Absent)]

\* reset_progress on y: os.remove(filepath) if it exists, then load()
reset_confirmed(f) == [file |-> Absent, user_state |-> load(Absent)]

\* KegelApp.reset_data: os.remove, UserState(), save
reset_data(f, io) ==
    [file |-> save(Absent, DefaultUserState, io), user_state |-> DefaultUserState]

\* reset_progress: y removes the file and loads; n returns
reset_progress(yes) ==
    /\ fe = "curses" /\ proc = "running" /\ screen = "reset"
    /\ screen' = IF yes THEN "resetdone" ELSE "progress"
    /\ IF yes
       THEN /\ file' = reset_confirmed(file).file
            /\ user_state' = reset_confirmed(file).user_state
       ELSE UNCHANGED <<file, user_state>>
    /\ UNCHANGED <<fe, plotext, proc, timeout, wall, sess, snap, last, keys,
                   idle, started>>

\* reset_progress: PROGRESS RESET COMPLETE, curses.napms(1500), return
ResetReturn ==
    /\ fe = "curses" /\ proc = "running" /\ screen = "resetdone"
    /\ screen' = "progress"
    /\ UNCHANGED <<fe, plotext, proc, timeout, user_state, file, wall, sess,
                   snap, last, keys, idle, started>>

\* the program, left with q, is started again: App.__init__ / on_mount load
\* the file, run sets the timeout of getch (a run that ended with an
\* exception is not followed further)
Restart ==
    /\ proc = "exited"
    /\ proc' = "running"
    /\ screen' = "menu"
    /\ timeout' = GETCH_TIMEOUT_MS
    /\ user_state' = load(file)
    /\ sess' = NoSession
    /\ UNCHANGED <<fe, plotext, file, wall, snap, last, keys, idle, started>>

Step(IO) ==
    \/ ResetReturn
    \/ Restart
    \/ CursesTimeout(IO)
    \/ CursesPauseKey(IO)
    \/ CursesStopKey(IO)
    \/ TuiStep(IO)
    \/ TuiPauseKey
    \/ TuiStopKey
    \/ SessionReturn
    \/ MenuStart
    \/ MenuOpen
    \/ ScreenBack
    \/ MenuQuit
    \/ StatsVisualize
    \/ VisualizeKey
    \/ ProgressReset
    \/ \E yes \in BOOLEAN : reset_progress(yes)

\* the programs on a disk that takes every write
Next == Step({"ok"})
Spec == Init /\ [][Next]_vars

\* the programs on a disk whose writes may fail
NextIO == Step(IoOutcomes)
SpecIO == Init /\ [][NextIO]_vars

(***************************************************************************)
(* Sessions one after the other: the programs started without a state file *)
(* and the main menu's s pressed again after a session has returned        *)
(***************************************************************************)
InitSessions == Init /\ file = Absent

MenuStartAgain == StartSession(MaxAgain)

NextSessions == Next \/ MenuStartAgain

SpecSessions == InitSessions /\ [][NextSessions]_vars

(***************************************************************************)
(* The store alone: a caller that holds a UserState and calls the methods  *)
(* of StateManager on state files of every shape.                          *)
(***************************************************************************)
Missing == [t |-> "missing"]

\* a JSON object of the keys whose option is not Missing
MkObj(opts) ==
    JObj([k \in {x \in DOMAIN opts : opts[x] # Missing} |-> opts[k]])

GoodRecord == RecordToJson(ExerciseRecord("T1", 1, 1, 3000, 11, <<12, 12, 12>>))
ShortRecord == JObj([k \in {"date"} |-> JStr("T1")])
LongRecord == JObj([k \in RecordKeys \cup {"note"} |->
                      IF k = "note" THEN JNum(1) ELSE GoodRecord.fields[k]])
HistoryEntries == {JNum(5), JStr("x"), GoodRecord, ShortRecord, LongRecord}
Histories ==
    {<<>>} \cup {<<a>> : a \in HistoryEntries}
           \cup {<<a, b>> : a \in HistoryEntries, b \in {JNum(5), GoodRecord}}

\* the state files the store is tried on
ObjectFiles ==
    {Text(MkObj(o)) :
        o \in [current_level : {Missing, JNum(2), JStr("abc")},
               current_day : {Missing, JNum(3)},
               last_performed : {Missing, JStr("T1")},
               settings : {Missing, JNum(1)},
               exercise_history :
                   {Missing, JNull, JNum(5), JStr("abc"),
                    JObj([k \in {"a"} |-> JNum(1)])}
                   \cup {JList(h) : h \in Histories}]}
SavedFiles ==
    {Text(ToJson([Progress(n, 3000) EXCEPT !.current_day = d])) :
        n \in 0..1, d \in 1..MaxDays}
StoreFiles ==
    {Absent, Binary, Garbage, Text(JNull), Text(JNum(5)), Text(JStr("abc")),
     Text(JStr("exercise_history")), Text(JList(<<>>)), Text(JList(<<JNum(5)>>)),
     Text(JList(<<JStr("exercise_history")>>))}
    \cup ObjectFiles \cup SavedFiles

InitStore ==
    /\ fe = "store" /\ plotext = TRUE /\ proc = "running" /\ screen = "none"
    /\ timeout = GETCH_TIMEOUT_MS
    /\ file \in StoreFiles
    /\ user_state = DefaultUserState
    /\ wall = 2
    /\ sess = NoSession
    /\ snap = [user_state |-> user_state, file |-> file]
    /\ last = NoCall
    /\ keys = 0 /\ idle = 0 /\ started = 0

\* a call is made; it raises what `raised` names ("" when it returns)
Call(c, raised) ==
    /\ proc = "running" /\ started < MaxCalls
    /\ started' = started + 1
    /\ last' = c
    /\ proc' = IF raised = "" THEN proc ELSE "crashed"
    /\ UNCHANGED <<fe, plotext, screen, timeout, sess, snap, keys, idle>>

\* a load that writes the defaults it answers a missing file with
StoreLoadCreates ==
    LET r == load_raw(file)
    IN  /\ Call([op |-> "load", file |-> file, raised |-> r.raised,
                 result |-> r.state, after |-> last.op], r.raised)
        /\ user_state' = IF r.raised = "" /\ WellTyped(r.state)
                         THEN FromRaw(r.state) ELSE user_state
        /\ file' = IF file.kind = "absent" THEN save(file, DefaultUserState, "ok")
                   ELSE file
        /\ UNCHANGED wall

\* self.user_state = self.state_manager.load()
StoreLoad ==
    LET r == load_raw(file)
    IN  /\ Call([op |-> "load", file |-> file, raised |-> r.raised,
                 result |-> r.state, after |-> last.op], r.raised)
        /\ user_state' = IF r.raised = "" /\ WellTyped(r.state)
                         THEN FromRaw(r.state) ELSE user_state
        /\ UNCHANGED <<file, wall>>

Raised(io) == IF io = "ok" THEN "" ELSE "OSError"

\* state_manager.save(user_state)
StoreSave(io) ==
    /\ Call([op |-> "save", pre |-> user_state, io |-> io], Raised(io))
    /\ file' = save(file, user_state, io)
    /\ UNCHANGED <<user_state, wall>>

\* state_manager.add_exercise_record(user_state, routine, duration)
StoreAddRecord(io) ==
    LET routine == generate_routine(user_state.current_level, user_state.current_day)
        post == add_exercise_record(user_state, routine, 3000, wall)
    IN  /\ Call([op |-> "add_exercise_record", pre |-> user_state,
                 routine |-> routine, post |-> post, io |-> io], Raised(io))
        /\ user_state' = post
        /\ file' = save(file, post, io)
        /\ wall' = wall + 1

\* state_manager.advance_progress(user_state, n)
StoreAdvance(n, io) ==
    LET post == advance_progress(user_state, n)
    IN  /\ Call([op |-> "advance_progress", pre |-> user_state, n |-> n,
                 post |-> post, io |-> io], Raised(io))
        /\ user_state' = post
        /\ file' = save(file, post, io)
        /\ UNCHANGED wall

\* app.save_workout(routine, duration)
StoreSaveWorkout(io) ==
    LET routine == generate_routine(user_state.current_level, user_state.current_day)
        post == save_workout(user_state, routine, 3000, wall)
    IN  /\ Call([op |-> "save_workout", pre |-> user_state,
                 n |-> routine.total_days_in_level, post |-> post, io |-> io],
                Raised(io))
        /\ user_state' = post
        /\ file' = save(file, post, io)
        /\ wall' = wall + 1

\* app.reset_progress(), y pressed
StoreResetProgress ==
    /\ Call([op |-> "reset_progress", pre |-> user_state, file |-> file], "")
    /\ file' = reset_confirmed(file).file
    /\ user_state' = reset_confirmed(file).user_state
    /\ UNCHANGED wall

\* app.reset_data()
StoreResetData(io) ==
    /\ Call([op |-> "reset_data", pre |-> user_state, file |-> file, io |-> io],
            Raised(io))
    /\ file' = reset_data(file, io).file
    /\ user_state' = reset_data(file, io).user_state
    /\ UNCHANGED wall

NextStore ==
    \/ StoreResetProgress
    \/ \E io \in IoOutcomes : StoreResetData(io)
    \/ StoreLoad
    \/ \E io \in IoOutcomes : StoreSave(io)
    \/ \E io \in IoOutcomes : StoreAddRecord(io)
    \/ \E n \in 1..MaxDays, io \in IoOutcomes : StoreAdvance(n, io)
    \/ \E io \in IoOutcomes : StoreSaveWorkout(io)

SpecStore == InitStore /\ [][NextStore]_vars

(***************************************************************************)
(* The progress over many sessions: a session is taken by its outcome, the *)
(* calls exercise_session and run_workout make once their loops are left.  *)
(***************************************************************************)
InitProgress ==
    /\ fe \in {"curses", "tui"}
    /\ plotext = TRUE /\ proc = "running" /\ screen = "menu"
    /\ timeout = GETCH_TIMEOUT_MS
    /\ file = Absent
    /\ user_state = load(file)
    /\ wall = 1
    /\ sess = NoSession
    /\ snap = [user_state |-> user_state, file |-> file]
    /\ last = NoCall
    /\ keys = 0 /\ idle = 0 /\ started = 0

\* a session, of `d` units, ends with outcome `completed`
Session(completed, d) ==
    LET routine == generate_routine(user_state.current_level, user_state.current_day)
        st == IF fe = "curses"
              THEN advance_progress(add_exercise_record(user_state, routine, d, wall),
                                    routine.total_days_in_level)
              ELSE save_workout(user_state, routine, d, wall)
    IN  /\ started < MaxRuns
        /\ started' = started + 1
        /\ last' = [op |-> IF completed THEN "completed" ELSE "stopped",
                    pre |-> [current_level |-> user_state.current_level,
                             current_day |-> user_state.current_day],
                    routine |-> routine, duration |-> d]
        /\ IF completed
           THEN /\ user_state' = st
                /\ file' = save(file, st, "ok")
                /\ wall' = wall + 1
           ELSE UNCHANGED <<user_state, file, wall>>
        /\ UNCHANGED <<fe, plotext, proc, screen, timeout, sess, snap, keys, idle>>

\* a reset answered with y (the curses front-end has one)
SessionsReset ==
    /\ fe = "curses"
    /\ last' = [op |-> "reset"]
    /\ file' = reset_confirmed(file).file
    /\ user_state' = reset_confirmed(file).user_state
    /\ UNCHANGED <<fe, plotext, proc, screen, timeout, wall, sess, snap, keys,
                   idle, started>>

NextProgress ==
    \/ \E completed \in BOOLEAN : Session(completed, 3000)
    \/ SessionsReset

SpecProgress == InitProgress /\ [][NextProgress]_vars

(***************************************************************************)
(* The statistics alone: App.statistics_screen on a history of records of  *)
(* days 5, 19 and 20, opened on day 20 or 21                               *)
(***************************************************************************)
StatRecords ==
    {ExerciseRecord(Timestamp(day, 8), level, 1, d,
                    generate_routine(level, 1).classic_reps,
                    generate_routine(level, 1).pulse_reps) :
        day \in {5, 19, 20}, level \in {1, 2}, d \in {150, 300}}

RECURSIVE StatHistories(_)
StatHistories(n) ==
    IF n = 0 THEN {<<>>}
    ELSE StatHistories(n - 1)
         \cup {Append(h, r) : h \in {g \in StatHistories(n - 1) : Len(g) = n - 1},
                              r \in StatRecords}

InitStats ==
    /\ fe = "curses" /\ plotext = TRUE /\ proc = "running" /\ screen = "menu"
    /\ timeout = GETCH_TIMEOUT_MS
    /\ file = Absent
    /\ \E h \in StatHistories(MaxHistory) :
          user_state = [DefaultUserState EXCEPT
                           !.exercise_history = h,
                           !.last_performed = IF h = <<>> THEN "" ELSE h[Len(h)].date]
    /\ wall \in {20, 21}
    /\ sess = NoSession
    /\ snap = [user_state |-> user_state, file |-> file]
    /\ last = NoCall
    /\ keys = 0 /\ idle = 0 /\ started = 0

\* statistics_screen: stats = calculate_stats(self.user_state.exercise_history)
StatsOpen ==
    /\ screen = "menu"
    /\ screen' = "stats"
    /\ last' = [op |-> "calculate_stats", history |-> user_state.exercise_history,
                today |-> wall,
                result |-> calculate_stats(user_state.exercise_history, wall)]
    /\ UNCHANGED <<fe, plotext, proc, timeout, user_state, file, wall, sess, snap,
                   keys, idle, started>>

\* any key but v: back to the main menu
StatsBack ==
    /\ screen = "stats"
    /\ screen' = "menu"
    /\ UNCHANGED <<fe, plotext, proc, timeout, user_state, file, wall, sess, snap,
                   last, keys, idle, started>>

NextStats == StatsOpen \/ StatsBack

SpecStats == InitStats /\ [][NextStats]_vars

(***************************************************************************)
(* The routine generator alone                                             *)
(***************************************************************************)
InitRoutine ==
    /\ fe = "none" /\ plotext = TRUE /\ proc = "running" /\ screen = "none"
    /\ timeout = GETCH_TIMEOUT_MS
    /\ file = Absent
    /\ user_state = DefaultUserState
    /\ wall = 1
    /\ sess = NoSession
    /\ snap = [user_state |-> user_state, file |-> file]
    /\ last = NoCall
    /\ keys = 0 /\ idle = 0 /\ started = 0

\* LevelGenerator.generate_routine(level, day) is called
Generate(level, day) ==
    /\ last' = [op |-> "generate_routine", level |-> level, day |-> day,
                routine |-> generate_routine(level, day)]
    /\ UNCHANGED <<fe, plotext, proc, screen, timeout, user_state, file, wall,
                   sess, snap, keys, idle, started>>

\* LevelGenerator.pulse_reps(level, day) is called directly, with any integers
PulseReps(level, day) ==
    /\ last' = [op |-> "pulse_reps", level |-> level, day |-> day,
                result |-> pulse_reps(level, day)]
    /\ UNCHANGED <<fe, plotext, proc, screen, timeout, user_state, file, wall,
                   sess, snap, keys, idle, started>>

NextRoutine ==
    \/ \E level \in 1..MaxLevel :
          \E day \in 1..get_days_for_level(level) : Generate(level, day)
    \/ \E level \in (0 - MaxLevel)..MaxLevel :
          \E day \in (0 - MaxDay)..MaxDay : PulseReps(level, day)

SpecRoutine == InitRoutine /\ [][NextRoutine]_vars

(***************************************************************************)
(* Properties                                                              *)
(***************************************************************************)
SameProgress(a, b) ==
    /\ Len(a.exercise_history) = Len(b.exercise_history)
    /\ a.current_level = b.current_level
    /\ a.current_day = b.current_day

\* C1: a session in which s/q was pressed before its completion (in any
\* phase, or on the pause screen) leaves the length of the history, the
\* level and the day as they were when it began, in memory and in the file.
C1_StoppedLeavesProgress ==
    sess.stopKey =>
        /\ SameProgress(user_state, snap.user_state)
        /\ SameProgress(load(file), load(snap.file))

\* C2: a session that ends Completed has appended exactly one record to the
\* history it began with and has applied the advancement exactly once.
C2_CompletedRecordsOnce ==
    sess.outcome = "Completed" =>
        LET before == snap.user_state
            N == get_days_for_level(before.current_level)
        IN  /\ Len(user_state.exercise_history) = Len(before.exercise_history) + 1
            /\ SubSeq(user_state.exercise_history, 1, Len(before.exercise_history))
                  = before.exercise_history
            /\ IF before.current_day >= N
               THEN /\ user_state.current_level = before.current_level + 1
                    /\ user_state.current_day = 1
               ELSE /\ user_state.current_level = before.current_level
                    /\ user_state.current_day = before.current_day + 1

C2_Witness ==
    /\ sess.outcome = "Completed"
    /\ snap.user_state.current_day = 5
    /\ user_state.current_level = 2
    /\ Len(user_state.exercise_history) = 5

\* C3: once s/q has been pressed (in any phase, also on the pause screen) the
\* session does not end Completed and no further phase is begun.
C3_StopNeverMissed ==
    sess.stopKey => sess.outcome # "Completed" /\ ~sess.late

\* C4: the time a session spends paused does not count toward its phase: a
\* phase of duration D that has run out has run un-paused for D at least.
C4_PauseFreezesPhase == sess.lastRun >= sess.lastDur

\* C5: advancing a state on day >= N gives level + 1, day 1, and otherwise
\* day + 1 on the same level; advance_progress leaves exercise_history and
\* last_performed as they were.
C5_AdvanceRule ==
    last.op \in {"advance_progress", "save_workout"} =>
        LET pre == last.pre
            post == last.post
        IN  /\ user_state = post
            /\ pre.current_day >= last.n =>
                  post.current_level = pre.current_level + 1 /\ post.current_day = 1
            /\ pre.current_day < last.n =>
                  /\ post.current_level = pre.current_level
                  /\ post.current_day = pre.current_day + 1
            /\ last.op = "advance_progress" =>
                  /\ post.exercise_history = pre.exercise_history
                  /\ post.last_performed = pre.last_performed

C5_Witness ==
    /\ last.op = "advance_progress"
    /\ last.pre.current_day = 5 /\ last.n = 5
    /\ last.pre.exercise_history # <<>>
    /\ user_state.current_level = 2 /\ user_state.current_day = 1

\* C6: a write of the state file that fails does not end the process.
C6_WriteFailureSurvived == proc # "crashed"

\* C7: load never raises, and returns the default UserState when the file is
\* missing or is not a JSON object of the known keys.
C7_LoadNeverRaises ==
    last.op = "load" =>
        /\ last.raised = ""
        /\ (\/ last.file.kind # "text"
            \/ last.file.json.t # "obj"
            \/ ~(DOMAIN last.file.json.fields \subseteq StateKeys))
           => last.result = RawDefault

\* the fields a JSON object gives to UserState, the absent ones defaulted
Given(d) == [k \in StateKeys |-> IF k \in DOMAIN d THEN d[k] ELSE RawDefault[k]]

C9_InputWaitBounded == screen = "workout" => timeout # BLOCKING

\* C10: the classic phase is Hold, Rest, Hold, Rest, ...: a Rest is begun only
\* after a Hold and a Hold only after a Rest, the first phase is a Hold, and
\* once the classic phase is over classic_reps Holds and classic_reps Rests
\* have been begun.
C10_ClassicAlternates ==
    LET ph == IF sess.pc = "pause" THEN sess.ret ELSE sess.pc
        holds == sess.n["hold"]
        rests == sess.n["rest"]
    IN  /\ rests <= holds /\ holds <= rests + 1
        /\ ph = "hold" => holds = rests + 1 /\ holds = sess.i + 1
        /\ ph = "rest" => holds = rests /\ rests = sess.i + 1
        /\ (sess.outcome = "Completed" \/ sess.n["intro"] > 0 \/ ph = "ready") =>
              /\ holds = sess.routine.classic_reps
              /\ rests = sess.routine.classic_reps

C10_Witness ==
    /\ fe = "curses" /\ sess.outcome = "Completed"
    /\ sess.routine.classic_reps = 11
    /\ sess.n["hold"] = 11 /\ sess.n["rest"] = 11


\* the phase a session is in, the pause screen seen through
PhaseOf(s) == IF s.pc = "pause" THEN s.ret ELSE s.pc

\* C11: the pulse part runs the sets in order, set k with pulse_reps[k]
\* Squeeze/Release pairs, Squeeze first; a rest of 10 s follows every set but
\* the last; a Completed session has run every pair of every set.
C11_PulseSets ==
    LET ph == PhaseOf(sess)
        reps == sess.routine.pulse_reps
        k == sess.set_idx + 1
        squeezes == sess.n["squeeze"]
        releases == sess.n["release"]
    IN  /\ releases <= squeezes /\ squeezes <= releases + 1
        /\ squeezes = Sum(sess.squeezes)
        /\ \A j \in 1..Len(reps) : sess.squeezes[j] <= reps[j]
        /\ ph \in {"squeeze", "release", "setrest"} =>
              /\ k <= Len(reps)
              /\ \A j \in 1..(k - 1) : sess.squeezes[j] = reps[j]
              /\ \A j \in (k + 1)..Len(reps) : sess.squeezes[j] = 0
              /\ sess.n["setrest"] = IF ph = "setrest" THEN k ELSE k - 1
        /\ ph = "squeeze" => squeezes = releases + 1 /\ sess.squeezes[k] = sess.rep + 1
        /\ ph = "release" => squeezes = releases /\ sess.squeezes[k] = sess.rep + 1
        /\ ph = "setrest" =>
              /\ squeezes = releases /\ sess.squeezes[k] = reps[k]
              /\ k < Len(reps) /\ sess.dur = 10 * SEC
        /\ sess.outcome = "Completed" =>
              /\ sess.squeezes = reps /\ releases = Sum(reps)
              /\ sess.n["setrest"] = Len(reps) - 1

C11_Witness ==
    /\ sess.outcome = "Completed"
    /\ sess.routine.pulse_reps = <<14, 13, 12>>
    /\ sess.squeezes = <<14, 13, 12>>
    /\ sess.n["release"] = 39 /\ sess.n["setrest"] = 2

\* the order of the phases, a stop left aside
PhasesInOrder ==
    LET ph == PhaseOf(sess)
        n == sess.n
        pulse == n["intro"] + n["squeeze"] + n["release"] + n["setrest"]
    IN  /\ ph = "idle" => pulse = 0 /\ n["hold"] = 0 /\ n["rest"] = 0
        /\ pulse > 0 =>
              /\ n["hold"] = sess.routine.classic_reps
              /\ n["rest"] = sess.routine.classic_reps
              /\ ph \notin {"hold", "rest", "ready"}
        /\ ph \in {"intro", "squeeze", "release", "setrest"} =>
              n["intro"] = sess.set_idx + 1
        /\ sess.outcome = "Completed" =>
              /\ n["intro"] = Len(sess.routine.pulse_reps)
              /\ sess.squeezes = sess.routine.pulse_reps
              /\ n["release"] = n["squeeze"]
        /\ sess.outcome # "none" <=> sess.pc \in {"done", "complete"}
        /\ sess.pc = "complete" => sess.outcome = "Completed"

\* C12: the phases come in the order Idle, Hold/Rest repetitions, then for
\* each set its intro, its Squeeze/Release repetitions and its rest; no pulse
\* phase begins before the last classic Rest is over; Completed is reached
\* only with every phase run out and no stop requested; Completed and
\* Stopped are final.
C12_PhaseOrder ==
    /\ PhasesInOrder
    /\ sess.outcome = "Completed" => ~sess.stopKey

\* where a session stands: its phase, the classic rep, the pulse set and rep,
\* and the start and the length of the phase in progress
Place(s) == <<PhaseOf(s), s.i, s.set_idx, s.rep, s.start, s.dur>>

\* C13: pausing changes neither the place of the session nor the UserState,
\* and a paused session that goes on without a stop is at the same place,
\* with no time given back to its phase, unless the phase in progress has
\* meanwhile had its whole duration of un-paused time.
C13_PauseKeepsPlace ==
    [][/\ (~sess.paused /\ sess'.paused) =>
             Place(sess') = Place(sess) /\ user_state' = user_state
       /\ (sess.paused /\ screen' = "workout" /\ ~sess'.stopKey) =>
             \/ /\ Place(sess') = Place(sess)
                /\ sess'.rem <= sess.rem
                /\ user_state' = user_state
             \/ /\ sess'.lastDur = sess.dur
                /\ sess'.lastRun >= sess'.lastDur]_vars

\* C14: after a confirmed reset the UserState in memory is the default one
\* and a load of the file returns the default one, whatever the state and
\* the file were before.
C14_ResetGivesDefaults ==
    last.op \in {"reset_progress", "reset_data"} =>
        /\ user_state = DefaultUserState
        /\ user_state.current_level = 1 /\ user_state.current_day = 1
        /\ user_state.last_performed = "" /\ user_state.exercise_history = <<>>
        /\ load_raw(file) = [raised |-> "", state |-> RawDefault]

C14_Witness ==
    /\ last.op = "reset_progress"
    /\ last.pre.exercise_history # <<>> /\ last.pre.current_day = 5
    /\ last.file.kind = "text"
    /\ user_state = DefaultUserState /\ file = Absent

\* nothing of the progress `a` is missing in `b`
Kept(a, b) ==
    /\ Len(a.exercise_history) <= Len(b.exercise_history)
    /\ SubSeq(b.exercise_history, 1, Len(a.exercise_history)) = a.exercise_history
    /\ \/ b.current_level > a.current_level
       \/ b.current_level = a.current_level /\ b.current_day >= a.current_day

\* C15: only a reset answered with y takes progress away: answering n leaves
\* the state in memory and the file as they are, and no other step (a
\* session completed or stopped, a pause, a screen, a restart of the
\* program) loses a record or level/day progress, in memory or in the file.
C15_OnlyResetDestroys ==
    [][/\ (screen = "reset" /\ screen' = "progress") =>
             user_state' = user_state /\ file' = file
       /\ ~(screen = "reset" /\ screen' = "resetdone") =>
             /\ proc = "running" => Kept(user_state, user_state')
             /\ proc # "running" => Kept(load(file), user_state')
             /\ Kept(load(file), load(file'))]_vars

Saving == {"save", "add_exercise_record", "advance_progress", "save_workout"}

\* C16: a load of the file that a save has written returns the state that
\* was saved: level, day, last_performed and every field of every record,
\* in the same order.
C16_SaveLoadRoundTrip ==
    (last.op \in Saving /\ last.io = "ok") =>
        LET r == load_raw(file)
        IN  /\ r.raised = ""
            /\ WellTyped(r.state)
            /\ FromRaw(r.state) = user_state
            /\ \A i \in 1..Len(user_state.exercise_history) :
                  RecordFromRaw(r.state["exercise_history"].items[i])
                     = user_state.exercise_history[i]

C16_Witness ==
    /\ last.op = "add_exercise_record" /\ last.io = "ok"
    /\ Len(user_state.exercise_history) = 2
    /\ user_state.exercise_history[1] # user_state.exercise_history[2]
    /\ user_state.current_level = 2 /\ user_state.current_day = 3
    /\ load(file) = user_state

\* C17: in every state reached from the defaults by sessions completed,
\* sessions stopped and resets, the level is 1 at least and the day lies in
\* 1..get_days_for_level(level).
C17_DayWithinLevel ==
    /\ user_state.current_level >= 1
    /\ user_state.current_day >= 1
    /\ user_state.current_day <= get_days_for_level(user_state.current_level)

C17_Witness ==
    /\ user_state.current_level = 8 /\ user_state.current_day = 7
    /\ get_days_for_level(8) = 7
    /\ Len(user_state.exercise_history) = 45
    /\ last.op = "stopped"

\* C18: between resets the history only grows at its end: every step that is
\* not a reset leaves the history as it was or with one record appended, the
\* records it had in their places and with their fields unchanged.
C18_HistoryAppendOnly ==
    [][last'.op # "reset" =>
          LET old == user_state.exercise_history
              new == user_state'.exercise_history
          IN  /\ Len(new) \in {Len(old), Len(old) + 1}
              /\ \A i \in 1..Len(old) : new[i] = old[i]]_vars

C18_Witness ==
    /\ last.op = "completed"
    /\ Len(user_state.exercise_history) = 3
    /\ user_state.exercise_history[1].date = "T2"
    /\ user_state.exercise_history[2].date = "T3"
    /\ user_state.exercise_history[3].date = "T4"
    /\ user_state.exercise_history[3].day = 3

\* C19: the record of a completed session carries the level, the day, the
\* classic_reps and the pulse_reps of the routine that was run (the level and
\* day before the advancement) and the session's duration; the level and day
\* are never advanced unless that record has been appended.
C19_RecordOfRoutine ==
    screen \in {"workout", "closing"} =>
        LET before == snap.user_state
            h == user_state.exercise_history
            rec == h[Len(h)]
            appended == /\ Len(h) = Len(before.exercise_history) + 1
                        /\ rec.level = before.current_level
                        /\ rec.day = before.current_day
                        /\ rec.level = sess.routine.level
                        /\ rec.day = sess.routine.day
                        /\ rec.classic_reps = sess.routine.classic_reps
                        /\ rec.pulse_reps = sess.routine.pulse_reps
                        /\ rec.duration_seconds = sess.clock
                        /\ user_state.last_performed = rec.date
            advanced == \/ user_state.current_level # before.current_level
                        \/ user_state.current_day # before.current_day
        IN  /\ sess.outcome = "Completed" => appended
            /\ advanced => appended
            /\ (sess.outcome = "Completed" /\ proc = "running") => advanced

C19_Witness ==
    /\ fe = "curses" /\ proc = "crashed" /\ sess.outcome = "Completed"
    /\ snap.user_state.current_day = 5
    /\ Len(user_state.exercise_history) = 5
    /\ user_state.exercise_history[5].day = 5
    /\ user_state.exercise_history[5].pulse_reps = <<14, 13, 12>>
    /\ user_state.current_level = 1 /\ user_state.current_day = 5

\* C20: for every level and every day of the level, generate_routine gives a
\* hold of 4 to 30 s, three pulse sets of 5 reps at least, a positive rest
\* and a positive number of classic reps, and total_days_in_level is
\* get_days_for_level(level) and not less than the day.
C20_RoutineWithinBounds ==
    last.op = "generate_routine" =>
        LET r == last.routine
        IN  /\ r.level = last.level /\ r.day = last.day
            /\ r.classic_hold_sec >= 4 /\ r.classic_hold_sec <= 30
            /\ Len(r.pulse_reps) = 3
            /\ \A k \in 1..Len(r.pulse_reps) : r.pulse_reps[k] >= 5
            /\ r.classic_rest_sec > 0
            /\ r.classic_reps > 0
            /\ r.total_days_in_level = get_days_for_level(last.level)
            /\ r.total_days_in_level >= last.day

C20_Witness ==
    /\ last.op = "generate_routine"
    /\ last.level = 30 /\ last.day = 12
    /\ last.routine.classic_hold_sec = 23
    /\ last.routine.pulse_reps = <<70, 69, 68>>
    /\ last.routine.total_days_in_level = 12

\* C21: get_days_for_level never goes down when the level goes up, and is
\* never more than 12.
C21_DaysMonotone ==
    last.op = "generate_routine" =>
        /\ last.routine.total_days_in_level <= 12
        /\ \A a \in 1..last.level :
              get_days_for_level(a) <= last.routine.total_days_in_level

\* C22: for a fixed day, no numeric field of the routine (hold, rest, reps,
\* each pulse set, days of the level) is lower at a higher level.
C22_FieldsMonotoneInLevel ==
    last.op = "generate_routine" =>
        \A a \in 1..last.level :
            LET lo == generate_routine(a, last.day)
                hi == last.routine
            IN  /\ lo.classic_hold_sec <= hi.classic_hold_sec
                /\ lo.classic_rest_sec <= hi.classic_rest_sec
                /\ lo.classic_reps <= hi.classic_reps
                /\ \A k \in 1..3 : lo.pulse_reps[k] <= hi.pulse_reps[k]
                /\ lo.total_days_in_level <= hi.total_days_in_level

\* C23: generate_routine(1, 1) gives hold 4, rest 4, 11 classic reps, pulse
\* sets 12, 12, 12 and 5 days in the level; generate_routine(11, 6) gives 16
\* classic reps and rest 5.
C23_ConcreteRoutines ==
    /\ (last.op = "generate_routine" /\ last.level = 1 /\ last.day = 1) =>
          /\ last.routine.classic_hold_sec = 4
          /\ last.routine.classic_rest_sec = 4
          /\ last.routine.classic_reps = 11
          /\ last.routine.pulse_reps = <<12, 12, 12>>
          /\ last.routine.total_days_in_level = 5
    /\ (last.op = "generate_routine" /\ last.level = 11 /\ last.day = 6) =>
          /\ last.routine.classic_reps = 16
          /\ last.routine.classic_rest_sec = 5

C23_Witness ==
    /\ last.op = "generate_routine" /\ last.level = 11 /\ last.day = 6
    /\ last.routine.classic_reps = 16
    /\ last.routine.classic_hold_sec = 12

\* C24: for every level and day, pulse_reps(level, day) is the three values
\* max(5, base + a0), max(5, base + a1), max(5, base + a2), where base is
\* 10 + 2*level up to level 10 and 25 + 2*(level - 10) above, dayAdj is
\* (day - 1) // 2, a0 = dayAdj, a1 = max(0, dayAdj - 1), a2 = max(0, dayAdj - 2).
C24_PulseRepsFormula ==
    last.op = "pulse_reps" =>
        LET base == IF last.level <= 10 THEN 10 + 2 * last.level
                    ELSE 25 + 2 * (last.level - 10)
            dayAdj == (last.day - 1) \div 2
            a0 == dayAdj
            a1 == IF dayAdj - 1 > 0 THEN dayAdj - 1 ELSE 0
            a2 == IF dayAdj - 2 > 0 THEN dayAdj - 2 ELSE 0
            atLeast5(n) == IF n > 5 THEN n ELSE 5
        IN  last.result = <<atLeast5(base + a0), atLeast5(base + a1), atLeast5(base + a2)>>

\* level -3, day 5: the base is 4, the first set is two steps ahead, the
\* second one step, the third is lifted to the minimum
C24_Witness ==
    /\ last.op = "pulse_reps" /\ last.level = 0 - 3 /\ last.day = 5
    /\ last.result = <<6, 5, 5>>

\* C25: every countdown value drawn during a session (hold, rest, the rest
\* between pulse sets, the Textual countdown) is the ceiling of the remaining
\* seconds and is at least 1: a frame whose value would be 0 is not drawn.
C25_CountdownShown ==
    sess.display # -1 =>
        /\ sess.display = CeilDiv(sess.shown, SEC)
        /\ sess.display >= 1

\* the same for the classic timers and the Textual countdown alone
C25_TimersShown ==
    (sess.display # -1 /\ (fe = "tui" \/ sess.n["setrest"] = 0)) =>
        /\ sess.display = CeilDiv(sess.shown, SEC)
        /\ sess.display >= 1

\* the durations of the phases of a routine, added up, in units
PhaseTime(routine) ==
    routine.classic_reps * (routine.classic_hold_sec + routine.classic_rest_sec) * SEC
    + Sum(routine.pulse_reps) * 2 * Units(PULSE_PHASE_MS)
    + (Len(routine.pulse_reps) - 1) * Units(SET_REST_MS)

\* C26: the duration recorded for a completed session is the time on the
\* clock from the session's start to its completion, the time spent paused
\* included, in both front-ends, and so is not less than the durations of the
\* phases added up (in the Textual front-end, where a pause holds the
\* countdown, not less than these plus the time spent paused).
C26_DurationIsWallClock ==
    (screen \in {"workout", "closing"} /\ sess.outcome = "Completed") =>
        LET h == user_state.exercise_history
            rec == h[Len(h)]
        IN  /\ Len(h) > 0
            /\ rec.duration_seconds = sess.clock
            /\ rec.duration_seconds >= PhaseTime(sess.routine)
            /\ fe = "tui" => rec.duration_seconds >= PhaseTime(sess.routine) + sess.pausedSum

C26_Witness ==
    /\ fe = "tui" /\ screen = "closing" /\ sess.outcome = "Completed"
    /\ sess.pausedSum > 0
    /\ Len(user_state.exercise_history) > 0
    /\ user_state.exercise_history[Len(user_state.exercise_history)].duration_seconds
          = sess.clock

\* C27: a load that follows a load, with no save and no other write to the
\* file in between, returns a state equal to the one the first returned, and
\* no load changes the content of the file.
C27_LoadTwice ==
    [][(started' = started + 1 /\ last'.op = "load") =>
          /\ file' = file
          /\ last.op = "load" =>
                /\ last'.raised = "" /\ last.raised = ""
                /\ last'.result = last.result
                /\ user_state' = user_state]_vars

C27_Witness ==
    /\ last.op = "load" /\ last.after = "load" /\ last.raised = ""
    /\ file = snap.file
    /\ Len(user_state.exercise_history) > 0

\* C29: calculate_stats on an empty history returns total duration 0, 0
\* workout days, 0 workouts, average duration 0, an empty level_stats and a
\* last_14_days of exactly 14 entries, each of duration zero.
C29_EmptyHistoryStats ==
    (last.op = "calculate_stats" /\ last.history = <<>>) =>
        /\ last.result.total_duration_minutes = 0
        /\ last.result.workout_days = 0
        /\ last.result.total_workouts = 0
        /\ last.result.avg_duration_minutes = 0
        /\ DOMAIN last.result.level_stats = {}
        /\ Len(last.result.last_14_days) = 14
        /\ \A k \in 1..Len(last.result.last_14_days) :
              last.result.last_14_days[k].duration_minutes.num = 0

\* C30: the saved file never holds the record of a completed session without
\* the session's advancement: whenever the process could stop, the history
\* length and the level and day that the file holds are both those from
\* before the session or both those from after it.
C30_RecordWithAdvancement ==
    (screen \in {"workout", "closing"} /\ file.kind = "text") =>
        LET before == load(snap.file)
            now == load(file)
            after == advance_progress(before, sess.routine.total_days_in_level)
        IN  \/ /\ Len(now.exercise_history) = Len(before.exercise_history)
               /\ now.current_level = before.current_level
               /\ now.current_day = before.current_day
            \/ /\ Len(now.exercise_history) = Len(before.exercise_history) + 1
               /\ now.current_level = after.current_level
               /\ now.current_day = after.current_day

\* C31: the last save that succeeded wins: a save that fails, at the open or
\* part-way through the write, leaves the file holding what the last
\* successful save wrote, and the next load returns that state.
C31_LastSaveWins ==
    [][(/\ started' = started + 1
        /\ last.op \in Saving /\ last.io = "ok"
        /\ last'.op \in Saving /\ last'.io # "ok") =>
          /\ file' = file
          /\ load(file') = load(file)]_vars

\* C32: the two front-ends complete a session alike: save_workout of the
\* Textual front-end leaves the same level, day, history and last_performed,
\* in memory and in the file, as add_exercise_record followed by
\* advance_progress of the curses front-end, from the same state, routine
\* and duration.
C32_SameCompletion ==
    [][last'.op = "completed" =>
          LET tui == save_workout(user_state, last'.routine, last'.duration, wall)
              curses == advance_progress(
                            add_exercise_record(user_state, last'.routine,
                                                last'.duration, wall),
                            last'.routine.total_days_in_level)
          IN  /\ tui = curses
              /\ user_state' = tui /\ user_state' = curses
              /\ file' = save(file, tui, "ok")
              /\ file' = save(save(file, add_exercise_record(user_state, last'.routine,
                                                             last'.duration, wall), "ok"),
                              curses, "ok")
              /\ load(file') = user_state']_vars

C32_Witness ==
    /\ fe = "tui" /\ last.op = "completed"
    /\ last.pre = [current_level |-> 1, current_day |-> 5]
    /\ user_state.current_level = 2 /\ user_state.current_day = 1
    /\ Len(user_state.exercise_history) = 5
    /\ user_state.last_performed = user_state.exercise_history[5].date

\* the pair that follows <<level, day>> in (1,1), (1,2), ...,
\* (1, days of level 1), (2,1), ...
NextPair(p) ==
    IF p[2] >= get_days_for_level(p[1]) THEN <<p[1] + 1, 1>> ELSE <<p[1], p[2] + 1>>

PairOf(r) == <<r.level, r.day>>

\* C33: from the defaults, after any sequence of sessions completed and
\* stopped, the (level, day) pairs of the records are the enumeration (1,1),
\* (1,2), ..., (1, days of level 1), (2,1), ... in order, none skipped and
\* none repeated, and the current level and day are the pair that follows.
C33_RecordsEnumerateDays ==
    LET h == user_state.exercise_history
        current == <<user_state.current_level, user_state.current_day>>
    IN  /\ \A i \in 1..Len(h) :
              PairOf(h[i]) = IF i = 1 THEN <<1, 1>> ELSE NextPair(PairOf(h[i - 1]))
        /\ current = IF h = <<>> THEN <<1, 1>> ELSE NextPair(PairOf(h[Len(h)]))

C33_Witness ==
    /\ last.op = "stopped"
    /\ Len(user_state.exercise_history) = 17
    /\ PairOf(user_state.exercise_history[5]) = <<1, 5>>
    /\ PairOf(user_state.exercise_history[6]) = <<2, 1>>
    /\ PairOf(user_state.exercise_history[17]) = <<4, 2>>
    /\ user_state.current_level = 4 /\ user_state.current_day = 3

\* C34: whenever control is at the main menu (after the start, after a
\* session completed or stopped, after a reset confirmed or declined), the
\* UserState in memory is what load would return from the file.
C34_MenuStateIsSaved ==
    (proc = "running" /\ screen = "menu") => user_state = load(file)

C34_Witness ==
    /\ proc = "running" /\ screen = "menu" /\ started = 1
    /\ snap.file = Absent
    /\ Len(user_state.exercise_history) = 1
    /\ user_state.current_day = 2
    /\ file = Text(ToJson(user_state))

\* C35: in every state reached from the defaults, last_performed is empty
\* exactly when the history is empty, and otherwise is the date of the last
\* record of the history.
C35_LastPerformedIsLastRecord ==
    LET h == user_state.exercise_history
    IN  /\ (user_state.last_performed = "") <=> (h = <<>>)
        /\ h # <<>> => user_state.last_performed = h[Len(h)].date

C35_Witness ==
    /\ fe = "curses" /\ last.op = "completed"
    /\ Len(user_state.exercise_history) = 3
    /\ user_state.last_performed = user_state.exercise_history[3].date
    /\ user_state.last_performed # user_state.exercise_history[2].date

\* C36: for every level and day from 1 on, the three pulse sets do not
\* increase from one set to the next, and the first has at most 2 reps more
\* than the last.
C36_PulseSetsStaggered ==
    (last.op = "pulse_reps" /\ last.level >= 1 /\ last.day >= 1) =>
        /\ last.result[1] >= last.result[2]
        /\ last.result[2] >= last.result[3]
        /\ last.result[1] - last.result[3] <= 2

C36_Witness ==
    /\ last.op = "pulse_reps" /\ last.level = 12 /\ last.day = 14
    /\ last.result = <<35, 34, 33>>

\* C37: within a level the routine does not get easier from one day to the
\* next: for every day d with 1 <= d < get_days_for_level(level), the hold,
\* the classic reps and every pulse set of day d + 1 are not below those of
\* day d.
C37_HarderEachDay ==
    (last.op = "generate_routine" /\ last.day >= 2) =>
        LET was == generate_routine(last.level, last.day - 1)
            is == last.routine
        IN  /\ is.classic_hold_sec >= was.classic_hold_sec
            /\ is.classic_reps >= was.classic_reps
            /\ \A k \in 1..3 : is.pulse_reps[k] >= was.pulse_reps[k]


\* C38: stop and pause requests do not leak from one session into the next:
\* every session starts with no stop pending and not paused, and a session
\* ends Stopped only if s or q was pressed while it ran; a session started
\* after a stopped one can so run to Completed and be recorded.
C38_RequestsDoNotLeak ==
    [][/\ (screen = "menu" /\ screen' = "workout") =>
              (~sess'.stop_signal /\ ~sess'.paused)
       /\ (sess'.outcome = "Stopped" => sess'.stopKey)]_vars

\* the second session, started after a session that was paused and then
\* stopped, has run to Completed without a key and is on record
C38_Witness ==
    /\ started = 2 /\ screen = "closing" /\ fe = "curses"
    /\ sess.before = [outcome |-> "Stopped", paused |-> TRUE]
    /\ sess.outcome = "Completed" /\ ~sess.stopKey /\ sess.pausedSum = 0
    /\ Len(user_state.exercise_history) = Len(snap.user_state.exercise_history) + 1
    /\ file = Text(ToJson(user_state))

====
